---- MODULE Spec2Model ----
(***************************************************************************)
(* Model of circular-buffer/src/lib.rs: CircularBuffer<T>, a fixed-size    *)
(* Vec<Option<T>> with a start (read) index and an end (write) index.      *)
(* The methods are pure operators over a record `self`; the actions apply  *)
(* them to the program state and log each call and its result.             *)
(***************************************************************************)
EXTENDS Integers, Sequences, FiniteSets

\* ---- bounds of the exploration ----
MaxCap == 3      \* capacities 1..MaxCap are constructed
NumVals == 2     \* number of distinguishable elements passed to write/overwrite
MaxOps == 6      \* number of method calls made on one buffer

\* Option::None; Some(e) is the element e itself (e >= 1)
None == 0
Values == 1..NumVals

VARIABLES buffer,     \* self.buffer : Vec<Option<T>>, indexed 0..len-1
          start_idx,  \* self.start_idx
          end_idx,    \* self.end_idx
          trace,      \* the calls made so far, each with its argument and result
          pre,        \* the struct as it was before the last call
          stamp,      \* stamp[i]: number of the call that stored the element of slot i (0: none)
          pre_stamp   \* stamp as it was before the last call

vars == <<buffer, start_idx, end_idx, trace, pre, stamp, pre_stamp>>

\* the struct CircularBuffer<T>
Self == [buffer |-> buffer, start_idx |-> start_idx, end_idx |-> end_idx]

\* self.buffer.len()
len(buf) == Cardinality(DOMAIN buf)

new(capacity) ==
  [buffer |-> [idx \in 0..(capacity - 1) |-> None], start_idx |-> 0, end_idx |-> 0]

is_empty(self) ==
  self.start_idx = self.end_idx /\ self.buffer[self.start_idx] = None

\* is_full without the is_some() test
is_full_indices_only(self) ==
  self.start_idx = self.end_idx

is_full(self) ==
  self.start_idx = self.end_idx /\ self.buffer[self.start_idx] # None

\* write whose end_idx stops at the last slot instead of wrapping
write_saturating(self, element) ==
  IF is_full(self)
  THEN [self |-> self, res |-> "FullBuffer", val |-> None]
  ELSE LET capacity == len(self.buffer)
       IN [self |-> [self EXCEPT !.buffer[self.end_idx] = element,
                                 !.end_idx = IF self.end_idx + 1 = capacity
                                             THEN self.end_idx
                                             ELSE self.end_idx + 1],
           res |-> "Ok", val |-> None]

\* write that advances end_idx without the modulo
write_no_wrap(self, element) ==
  IF is_full(self)
  THEN [self |-> self, res |-> "FullBuffer", val |-> None]
  ELSE [self |-> [self EXCEPT !.buffer[self.end_idx] = element,
                              !.end_idx = self.end_idx + 1],
        res |-> "Ok", val |-> None]

write(self, element) ==
  IF is_full(self)
  THEN [self |-> self, res |-> "FullBuffer", val |-> None]
  ELSE LET capacity == len(self.buffer)
       IN [self |-> [self EXCEPT !.buffer[self.end_idx] = element,
                                 !.end_idx = (self.end_idx + 1) % capacity],
           res |-> "Ok", val |-> None]

\* read that advances start_idx before the emptiness test
read_advances_on_empty(self) ==
  LET capacity == len(self.buffer)
      value == self.buffer[self.start_idx]
      moved == [self EXCEPT !.start_idx = (self.start_idx + 1) % capacity]
  IN IF is_empty(self)
     THEN [self |-> moved, res |-> "EmptyBuffer", val |-> None]
     ELSE [self |-> [moved EXCEPT !.buffer[self.start_idx] = None],
           res |-> IF value = None THEN "Panic" ELSE "Ok",
           val |-> value]

\* read that takes the element but leaves start_idx where it was
read_keeps_start(self) ==
  IF is_empty(self)
  THEN [self |-> self, res |-> "EmptyBuffer", val |-> None]
  ELSE LET value == self.buffer[self.start_idx]
       IN [self |-> [self EXCEPT !.buffer[self.start_idx] = None],
           res |-> IF value = None THEN "Panic" ELSE "Ok",
           val |-> value]

\* read that copies the element out and leaves it in its slot
read_keeps_slot(self) ==
  IF is_empty(self)
  THEN [self |-> self, res |-> "EmptyBuffer", val |-> None]
  ELSE LET capacity == len(self.buffer)
           value == self.buffer[self.start_idx]
       IN [self |-> [self EXCEPT !.start_idx = (self.start_idx + 1) % capacity],
           res |-> IF value = None THEN "Panic" ELSE "Ok",
           val |-> value]

\* value.unwrap() on None panics, after the slot was replaced and start_idx advanced
read(self) ==
  IF is_empty(self)
  THEN [self |-> self, res |-> "EmptyBuffer", val |-> None]
  ELSE LET capacity == len(self.buffer)
           value == self.buffer[self.start_idx]
       IN [self |-> [self EXCEPT !.buffer[self.start_idx] = None,
                                 !.start_idx = (self.start_idx + 1) % capacity],
           res |-> IF value = None THEN "Panic" ELSE "Ok",
           val |-> value]

\* clear that starts at start_idx instead of 0
clear_from_start(self) ==
  [self |-> [self EXCEPT !.buffer = [idx \in DOMAIN self.buffer |->
                                       IF idx >= self.start_idx THEN None
                                       ELSE self.buffer[idx]]],
   res |-> "Unit", val |-> None]

\* clear that also rewinds both indices to 0
clear_resets_indices(self) ==
  [self |-> [self EXCEPT !.buffer = [idx \in DOMAIN self.buffer |-> None],
                         !.start_idx = 0,
                         !.end_idx = 0],
   res |-> "Unit", val |-> None]

clear(self) ==
  [self |-> [self EXCEPT !.buffer = [idx \in DOMAIN self.buffer |-> None]],
   res |-> "Unit", val |-> None]

overwrite(self, element) ==
  LET capacity == len(self.buffer)
      stored == [self EXCEPT !.buffer[self.end_idx] = element]
      moved == IF stored.start_idx = stored.end_idx
               THEN [stored EXCEPT !.start_idx = (stored.start_idx + 1) % capacity]
               ELSE stored
  IN [self |-> [moved EXCEPT !.end_idx = (moved.end_idx + 1) % capacity],
      res |-> "Unit", val |-> None]

\* ---- the program: one buffer, a sequence of calls on it ----

Last == trace[Len(trace)]

\* The elements a caller passes.  T is an unconstrained type parameter and no
\* method inspects an element, so runs that differ only by a renaming of the
\* elements are the same run: the elements are numbered in the order in which
\* they first appear (the first is 1, the next new one is 2, ...).
Passed == {trace[i].arg : i \in 1..Len(trace)} \ {None}
Elements == {e \in Values : \A d \in 1..(e - 1) : d \in Passed}

\* a panic aborts the caller: no further call is made on the buffer
Running == Len(trace) < MaxOps /\ (trace # <<>> => Last.res # "Panic")

\* commit the outcome r of a call and log it
Apply(op, arg, r) ==
  /\ buffer' = r.self.buffer
  /\ start_idx' = r.self.start_idx
  /\ end_idx' = r.self.end_idx
  /\ pre' = Self
  /\ pre_stamp' = stamp
  /\ trace' = Append(trace, [op |-> op, arg |-> arg, res |-> r.res, val |-> r.val])

Init ==
  \E capacity \in 1..MaxCap :
    /\ buffer = new(capacity).buffer
    /\ start_idx = new(capacity).start_idx
    /\ end_idx = new(capacity).end_idx
    /\ trace = <<>>
    /\ pre = new(capacity)
    /\ stamp = [idx \in 0..(capacity - 1) |-> 0]
    /\ pre_stamp = [idx \in 0..(capacity - 1) |-> 0]

Write ==
  \E element \in Elements :
    /\ Running
    /\ Apply("write", element, write(Self, element))
    /\ stamp' = IF write(Self, element).res = "Ok"
                THEN [stamp EXCEPT ![end_idx] = Len(trace) + 1]
                ELSE stamp

Read ==
  /\ Running
  /\ Apply("read", None, read(Self))
  /\ stamp' = IF read(Self).res = "EmptyBuffer"
              THEN stamp
              ELSE [stamp EXCEPT ![start_idx] = 0]

Clear ==
  /\ Running
  /\ Apply("clear", None, clear(Self))
  /\ stamp' = [idx \in DOMAIN stamp |-> 0]

Overwrite ==
  \E element \in Elements :
    /\ Running
    /\ Apply("overwrite", element, overwrite(Self, element))
    /\ stamp' = [stamp EXCEPT ![end_idx] = Len(trace) + 1]

Next == Write \/ Read \/ Clear \/ Overwrite

Spec == Init /\ [][Next]_vars

\* ---- vocabulary of the properties ----

N == Len(trace)
capacity == len(buffer)

\* calls from..to of the trace are all calls of op
OpsAre(from, to, op) == \A i \in from..to : trace[i].op = op

\* the buffer was constructed and then only written k times and read afterwards
WritesThenReads(k) == k \in 0..N /\ OpsAre(1, k, "write") /\ OpsAre(k + 1, N, "read")

\* C1: on a fresh buffer, k <= capacity writes all succeed, the next k reads
\* return the k elements in the order written, and one more read returns
\* EmptyBuffer.
C1_FifoOrder ==
  \A k \in 0..N :
    (k <= capacity /\ WritesThenReads(k) /\ N <= 2 * k + 1) =>
      /\ \A i \in 1..k : trace[i].res = "Ok"
      /\ \A j \in 1..(N - k) :
           IF j <= k
           THEN trace[k + j].res = "Ok" /\ trace[k + j].val = trace[j].arg
           ELSE trace[k + j].res = "EmptyBuffer"

C1_Witness ==
  /\ capacity >= 2
  /\ N = 2 * capacity + 1
  /\ WritesThenReads(capacity)
  /\ trace[1].arg # trace[2].arg
  /\ Last.res = "EmptyBuffer"

\* C2: a read that immediately follows clear() returns EmptyBuffer.
C2_ReadAfterClearIsEmpty ==
  (N >= 2 /\ trace[N - 1].op = "clear" /\ Last.op = "read") => Last.res = "EmptyBuffer"

\* call p is clear(), followed by m writes and then only reads
ClearThenWritesThenReads(p, m) ==
  /\ p \in 1..N /\ m \in 0..(N - p)
  /\ trace[p].op = "clear"
  /\ OpsAre(p + 1, p + m, "write")
  /\ OpsAre(p + m + 1, N, "read")

\* C3: after clear() the next capacity writes succeed, one more returns
\* FullBuffer, and capacity reads then return the written elements in order.
C3_ClearFreesFullCapacity ==
  \A p \in 1..N : \A m \in 0..(N - p) :
    (ClearThenWritesThenReads(p, m) /\ m <= capacity + 1) =>
      /\ \A i \in 1..m : trace[p + i].res = IF i <= capacity THEN "Ok" ELSE "FullBuffer"
      /\ m >= capacity =>
           \A j \in 1..(N - p - m) :
             j <= capacity => /\ trace[p + m + j].res = "Ok"
                              /\ trace[p + m + j].val = trace[p + j].arg

\* the elements successive reads return, up to the first read that fails
RECURSIVE ReadAll(_)
ReadAll(self) ==
  LET r == read(self)
  IN IF r.res = "Ok" THEN <<r.val>> \o ReadAll(r.self) ELSE <<>>

AllOccupied(buf) == \A idx \in DOMAIN buf : buf[idx] # None

\* C4: overwrite(x) on a buffer that is not full leaves exactly the state a
\* successful write(x) leaves, evicts nothing, and so reads the same.
C4_OverwriteActsLikeWrite ==
  (N >= 1 /\ Last.op = "overwrite" /\ ~is_full(pre)) =>
    /\ write(pre, Last.arg).res = "Ok"
    /\ Self = write(pre, Last.arg).self
    /\ ReadAll(Self) = ReadAll(write(pre, Last.arg).self)
    /\ \A idx \in DOMAIN buffer : pre.buffer[idx] # None => buffer[idx] = pre.buffer[idx]

\* the elements of buf, oldest stored first (st gives each slot's stamp)
RECURSIVE ByAge(_, _, _)
ByAge(buf, st, slots) ==
  IF slots = {} THEN <<>>
  ELSE LET oldest == CHOOSE i \in slots : \A j \in slots : st[i] <= st[j]
       IN <<buf[oldest]>> \o ByAge(buf, st, slots \ {oldest})

Occupied(buf) == {idx \in DOMAIN buf : buf[idx] # None}

\* C5: overwrite(x) on a buffer whose slots are all occupied evicts the oldest
\* held element only, leaves the buffer full, and reads then return the other
\* elements in their previous order followed by x.
C5_OverwriteEvictsOldest ==
  (N >= 1 /\ Last.op = "overwrite" /\ AllOccupied(pre.buffer)) =>
    LET evicted == CHOOSE idx \in DOMAIN buffer : stamp[idx] # pre_stamp[idx]
    IN /\ \A idx \in DOMAIN buffer : pre_stamp[evicted] <= pre_stamp[idx]
       /\ \A idx \in DOMAIN buffer \ {evicted} : buffer[idx] = pre.buffer[idx]
       /\ AllOccupied(buffer) /\ is_full(Self)
       /\ ReadAll(Self) =
            Tail(ByAge(pre.buffer, pre_stamp, DOMAIN buffer)) \o <<Last.arg>>

\* C6: read fails only with EmptyBuffer, write only with FullBuffer, clear and
\* overwrite never: no call panics.
C6_NoOtherFailure ==
  \A i \in 1..N :
    /\ trace[i].op = "read" => trace[i].res \in {"Ok", "EmptyBuffer"}
    /\ trace[i].op = "write" => trace[i].res \in {"Ok", "FullBuffer"}
    /\ trace[i].op \in {"clear", "overwrite"} => trace[i].res = "Unit"

\* C7: on a fresh buffer writes 1..capacity succeed and write capacity+1
\* returns FullBuffer; a write returning FullBuffer changes nothing.
C7_FullBufferRejectsWrite ==
  /\ (OpsAre(1, N, "write") /\ N <= capacity + 1) =>
       \A i \in 1..N : trace[i].res = IF i <= capacity THEN "Ok" ELSE "FullBuffer"
  /\ (N >= 1 /\ Last.op = "write" /\ Last.res = "FullBuffer") => Self = pre

C7_Witness ==
  /\ capacity >= 2
  /\ N = capacity + 1
  /\ OpsAre(1, N, "write")
  /\ Last.res = "FullBuffer"
  /\ Last.arg # trace[1].arg

\* C8: read on a fresh buffer returns EmptyBuffer; a read returning
\* EmptyBuffer changes nothing.
C8_EmptyBufferRejectsRead ==
  /\ (N >= 1 /\ trace[1].op = "read") => trace[1].res = "EmptyBuffer"
  /\ (N >= 1 /\ Last.op = "read" /\ Last.res = "EmptyBuffer") => Self = pre

C8_Witness ==
  /\ capacity >= 2
  /\ N >= 4
  /\ trace[1].op = "read"
  /\ Last.op = "read" /\ Last.res = "EmptyBuffer"
  /\ start_idx # 0

\* the buffer was filled by capacity writes, read once, written once, then only read
FillReadWriteThenReads ==
  /\ N >= capacity + 2
  /\ OpsAre(1, capacity, "write")
  /\ trace[capacity + 1].op = "read"
  /\ trace[capacity + 2].op = "write"
  /\ OpsAre(capacity + 3, N, "read")

\* C9: after filling a fresh buffer, one read and then one write succeed, and
\* the following reads return the capacity-1 remaining elements in their
\* original order and then the newly written element.
C9_ReadThenWriteRoundTrip ==
  (FillReadWriteThenReads /\ N <= 2 * capacity + 2) =>
    /\ trace[capacity + 1].res = "Ok" /\ trace[capacity + 1].val = trace[1].arg
    /\ trace[capacity + 2].res = "Ok"
    /\ \A j \in 1..(N - capacity - 2) :
         /\ trace[capacity + 2 + j].res = "Ok"
         /\ trace[capacity + 2 + j].val =
              IF j < capacity THEN trace[j + 1].arg ELSE trace[capacity + 2].arg

C9_Witness ==
  /\ capacity >= 2
  /\ FillReadWriteThenReads
  /\ N = 2 * capacity + 2
  /\ trace[2].arg # trace[capacity + 2].arg
  /\ Last.val = trace[capacity + 2].arg

\* C10: immediately after clear() every slot of the storage is empty.
C10_ClearEmptiesEverySlot ==
  (N >= 1 /\ Last.op = "clear") => \A idx \in DOMAIN buffer : buffer[idx] = None

C10_Witness ==
  /\ N >= 1 /\ Last.op = "clear"
  /\ Cardinality(Occupied(pre.buffer)) >= 2
  /\ pre.start_idx # pre.end_idx
  /\ Occupied(buffer) = {}

\* C11: clear() on a buffer that holds no element changes neither the slots
\* nor the indices, and a second clear() leaves the state of the first.
C11_ClearOnEmptyIsNoOp ==
  /\ (N >= 1 /\ Last.op = "clear" /\ Occupied(pre.buffer) = {}) => Self = pre
  /\ (N >= 2 /\ trace[N - 1].op = "clear" /\ Last.op = "clear") => Self = pre

C11_Witness ==
  /\ capacity >= 2
  /\ N >= 4
  /\ trace[N - 1].op = "clear" /\ Last.op = "clear"
  /\ trace[N - 2].op = "read" /\ trace[N - 2].res = "Ok"
  /\ start_idx # 0

\* C12: no slot is occupied exactly when start_idx = end_idx and the slot at
\* that index is empty, and read returns EmptyBuffer exactly when no element
\* is held.
C12_EmptyIffIndicesMeetOnEmptySlot ==
  /\ (Occupied(buffer) = {}) <=> is_empty(Self)
  /\ (N >= 1 /\ Last.op = "read") =>
       ((Last.res = "EmptyBuffer") <=> (Occupied(pre.buffer) = {}))

\* C13: all slots are occupied exactly when start_idx = end_idx and the slot
\* at that index is occupied; write returns FullBuffer exactly when no slot
\* is free, and so succeeds whenever fewer than capacity elements are held.
C13_FullIffIndicesMeetOnOccupiedSlot ==
  /\ AllOccupied(buffer) <=> is_full(Self)
  /\ (N >= 1 /\ Last.op = "write") =>
       ((Last.res = "FullBuffer") <=> AllOccupied(pre.buffer))

\* the positions from start_idx up to, not including, end_idx, wrapping at the
\* end of the storage; all of them when the indices meet on an occupied slot
RECURSIVE RunFrom(_, _, _)
RunFrom(idx, stop, size) ==
  IF idx = stop THEN {} ELSE {idx} \cup RunFrom((idx + 1) % size, stop, size)

Run(self) ==
  IF self.start_idx = self.end_idx
  THEN IF self.buffer[self.start_idx] # None THEN DOMAIN self.buffer ELSE {}
  ELSE RunFrom(self.start_idx, self.end_idx, len(self.buffer))

\* C14: the occupied slots are exactly the circular run from start_idx up to,
\* not including, end_idx; every slot outside the run is empty.
C14_OccupiedSlotsAreTheRun ==
  Occupied(buffer) = Run(Self)

\* slot idx holds the element stored earliest among the occupied slots
HoldsOldest(buf, st, idx) ==
  /\ buf[idx] # None
  /\ \A other \in Occupied(buf) : st[idx] <= st[other]

\* C15: whenever an element is held, the slot at start_idx holds the oldest
\* held element, and every successful read returns the oldest held element.
C15_ReadIndexHoldsOldest ==
  /\ Occupied(buffer) # {} => HoldsOldest(buffer, stamp, start_idx)
  /\ (N >= 1 /\ Last.op = "read" /\ Last.res = "Ok") =>
       HoldsOldest(pre.buffer, pre_stamp, pre.start_idx)

\* C16: a write that returns Ok stores its element into a slot that was empty:
\* the number of occupied slots grows by one and every element held before
\* the call is still held.
C16_WriteFillsAnEmptySlot ==
  (N >= 1 /\ Last.op = "write" /\ Last.res = "Ok") =>
    /\ pre.buffer[pre.end_idx] = None
    /\ Cardinality(Occupied(buffer)) = Cardinality(Occupied(pre.buffer)) + 1
    /\ \A idx \in Occupied(pre.buffer) :
         buffer[idx] = pre.buffer[idx] /\ stamp[idx] = pre_stamp[idx]

\* C17: a read that returns Ok(v) takes v out of the slot at start_idx: that
\* slot becomes empty, start_idx advances by one modulo the capacity, end_idx
\* and the other slots are unchanged and one slot fewer is occupied, so v
\* cannot be returned by a later read.
C17_ReadRemovesTheElement ==
  (N >= 1 /\ Last.op = "read" /\ Last.res = "Ok") =>
    /\ Last.val = pre.buffer[pre.start_idx] /\ Last.val # None
    /\ buffer[pre.start_idx] = None
    /\ start_idx = (pre.start_idx + 1) % capacity
    /\ end_idx = pre.end_idx
    /\ \A idx \in DOMAIN buffer \ {pre.start_idx} : buffer[idx] = pre.buffer[idx]
    /\ Cardinality(Occupied(buffer)) = Cardinality(Occupied(pre.buffer)) - 1

C17_Witness ==
  /\ capacity >= 2
  /\ N >= 1 /\ Last.op = "read" /\ Last.res = "Ok"
  /\ \A i \in 1..N : trace[i].op \in {"write", "read"}
  /\ pre.start_idx = capacity - 1 /\ start_idx = 0
  /\ Occupied(buffer) # {}

\* C18: the storage keeps the length it was constructed with (no call changes
\* it) and start_idx and end_idx always lie in 0..capacity-1, so every slot
\* access is in bounds.
C18_IndicesStayInBounds ==
  /\ capacity >= 1
  /\ DOMAIN buffer = 0..(capacity - 1)
  /\ DOMAIN buffer = DOMAIN pre.buffer
  /\ start_idx \in 0..(capacity - 1)
  /\ end_idx \in 0..(capacity - 1)

C18_Witness ==
  /\ capacity >= 2
  /\ N >= capacity + 2
  /\ Last.op \in {"write", "overwrite"}
  /\ pre.end_idx = capacity - 1 /\ end_idx = 0
  /\ pre.start_idx # 0
====
